---- MODULE Spec2Model ----
(***************************************************************************)
(* Model of wrappy.memoize (src/wrappy/__init__.py): an OrderedDict-backed  *)
(* LRU cache around a function, optionally persisted to a pickle file in    *)
(* batches.  One cache instance lives inside one process; the snapshot file *)
(* outlives the process and is loaded by the next construction.             *)
(***************************************************************************)
EXTENDS Integers, Sequences, FiniteSets, TLC

(* ------------------------------ bounds --------------------------------- *)
MaxLimit == 2
MaxCalls == 4

\* lookup keys (the strings args_as_string renders): one more than the largest
\* cache_limit, so that every cache can overflow
Keys == 1..(MaxLimit + 1)
\* return values of func: two suffice to tell a stored value from a fresh one
Values == {1, 2}
\* cache_limit is not validated by memoize(): 0 is accepted like any int
Limits == 0..MaxLimit
\* persist_batch_size: 0 is what the assertion of line 235 rejects
BatchSizes == 0..MaxLimit

VARIABLES
    proc,               \* "none": no cache constructed in a live process; "ready"
    cache_limit,        \* memoize() arguments of the live cache
    return_copy,
    persist_path,       \* TRUE: a non-empty path string; FALSE: None
    persist_batch_size,
    memory,             \* the OrderedDict, least recently used first
    updates,            \* state_dict['updates']
    file,               \* what is on disk at persist_path
    stack,              \* memoized_func activations, innermost last
    ev,                 \* the step just taken, as its caller observes it
    hitKey,             \* {K} after a hit on K, while only insertions followed
    insSince,           \* number of insertions since that hit
    plain,              \* that hit and those insertions were not nested calls
    stored,             \* entries stored since the last flush began
    retry,              \* a file write failed and no entry was stored since
    calls,              \* calls made so far, over all processes
    seen,               \* number of distinct keys called so far
    threads,            \* concurrent activations of memoized_func, by thread
    guarded,            \* a guard() decoration and the last call through it
    rendered            \* two calls and the keys args_as_string gave them

vars == <<proc, cache_limit, return_copy, persist_path, persist_batch_size,
          memory, updates, file, stack, ev, hitKey, insSince, plain, stored,
          retry, calls, seen, threads, guarded, rendered>>

config == <<cache_limit, return_copy, persist_path, persist_batch_size>>

\* the state of the other decorators and of the threaded callers, which a
\* single-threaded call of memoized_func does not touch
side == <<threads, guarded, rendered>>

(* --------------------------- OrderedDict ------------------------------- *)
KeysOf(mem) == {mem[i].key : i \in 1..Len(mem)}

\* a lookup that never finds the key
never_contained(mem, k) == FALSE

\* lookup_key in memory
contains(mem, k) == k \in KeysOf(mem)

IndexOf(mem, k) == CHOOSE i \in 1..Len(mem) : mem[i].key = k

getitem(mem, k) == mem[IndexOf(mem, k)].val

RemoveAt(mem, i) == SubSeq(mem, 1, i - 1) \o SubSeq(mem, i + 1, Len(mem))

\* a refresh to the wrong end: move_to_end(lookup_key, last=False)
move_to_front(mem, k) == <<mem[IndexOf(mem, k)]>> \o RemoveAt(mem, IndexOf(mem, k))

\* a hit that does not refresh the key
no_refresh(mem, k) == mem

\* memory.move_to_end(lookup_key, last=True)
move_to_end(mem, k) == RemoveAt(mem, IndexOf(mem, k)) \o <<mem[IndexOf(mem, k)]>>

\* memory[lookup_key] = retval: a present key keeps its position
setitem(mem, k, v) ==
    IF contains(mem, k)
    THEN [mem EXCEPT ![IndexOf(mem, k)].val = v]
    ELSE Append(mem, [key |-> k, val |-> v])

\* memory.popitem(last=False)
popitem(mem) == Tail(mem)

\* if len(memory.keys()) > cache_limit: memory.popitem(last=False)
evict(mem, limit) == IF Len(mem) > limit THEN popitem(mem) ELSE mem

(* ------------------------- pickle stream ------------------------------- *)
\* the file system entry at persist_path
NoFile == [exists |-> FALSE, data |-> <<>>]
FileOf(data) == [exists |-> TRUE, data |-> data]

\* a dump that writes the items most recently used first
pickle_dump_reversed(mem) ==
    <<[op |-> "ODICT", n |-> Len(mem)]>>
    \o [i \in 1..Len(mem) |-> [op |-> "ITEM", key |-> mem[Len(mem) + 1 - i].key,
                                val |-> mem[Len(mem) + 1 - i].val]]
    \o <<[op |-> "STOP"]>>

\* a dump taken before the newest entry was stored
pickle_dump_before_store(mem) ==
    <<[op |-> "ODICT", n |-> Len(mem) - 1]>>
    \o [i \in 1..(Len(mem) - 1) |->
           [op |-> "ITEM", key |-> mem[i].key, val |-> mem[i].val]]
    \o <<[op |-> "STOP"]>>

\* pickle.dump(memory, f): a header with the item count, the items in
\* iteration order, and the STOP opcode
pickle_dump(mem) ==
    <<[op |-> "ODICT", n |-> Len(mem)]>>
    \o [i \in 1..Len(mem) |-> [op |-> "ITEM", key |-> mem[i].key, val |-> mem[i].val]]
    \o <<[op |-> "STOP"]>>

\* a load that accepts whatever it finds
Loadable_lenient(data) == TRUE

\* pickle.load(f) raises on an empty or truncated stream
Loadable(data) ==
    /\ Len(data) >= 2
    /\ data[1].op = "ODICT"
    /\ data[Len(data)].op = "STOP"
    /\ Len(data) = data[1].n + 2
    /\ \A i \in 2..(Len(data) - 1) : data[i].op = "ITEM"

RECURSIVE build_items(_, _, _)
build_items(data, i, mem) ==
    IF i > Len(data) - 1 THEN mem
    ELSE build_items(data, i + 1, setitem(mem, data[i].key, data[i].val))

\* pickle.load(f): the OrderedDict is rebuilt by setting the items in order
pickle_load(data) == build_items(data, 2, <<>>)

\* what an interrupted or failed dump leaves behind: any strict prefix
Prefixes(data) == {SubSeq(data, 1, n) : n \in 0..(Len(data) - 1)}

(* ------------------------------ events --------------------------------- *)
\* what a step shows its caller: the operation, its outcome ("ret": the call
\* returned val; "raise": it ended with an exception; "flush": the call goes on
\* to write the snapshot), the key, the keys evicted, and for a hit the
\* position the key had before it
Event(op, out, key, val, evicted) ==
    [op |-> op, out |-> out, key |-> key, val |-> val, evicted |-> evicted,
     pos |-> 0]

HitEvent(out, k, v, pos) ==
    [op |-> "hit", out |-> out, key |-> {k}, val |-> {v}, evicted |-> {},
     pos |-> pos]

Frame(k, pc, v) == [key |-> k, pc |-> pc, ret |-> v]

Top == stack[Len(stack)]
Pop == SubSeq(stack, 1, Len(stack) - 1)
InProgress == {stack[i].key : i \in 1..Len(stack)}

\* a call of memoized_func has just returned to its caller
CallCompleted == proc = "ready" /\ ev.out = "ret" /\ ev.op \in {"hit", "store", "dump"}

\* a flush that waits for one update too many: > instead of >=
flush_due_late(path, n, batch) == path /\ n > batch

\* line 270: if persist_path and state_dict['updates'] >= persist_batch_size
flush_due(path, n, batch) == path /\ n >= batch

(* ------------------------------- guard --------------------------------- *)
\* guard(fallback_retval=0, ...): the default of line 157, which is also the
\* fallback of the guard that line 180 wraps around fallback_func
default_fallback_retval == 0

\* how a call ends: "ret" with val, "exc" (an Exception), "base" (a
\* BaseException that is no Exception, such as KeyboardInterrupt), or
\* "unbound" (the UnboundLocalError of `return retval`)
Ret(v) == [kind |-> "ret", val |-> v]
Raise(kind) == [kind |-> kind, val |-> 0]

\* a callable of one argument: it returns its argument plus add, or raises
NoCallable == [kind |-> "none", add |-> 0]
Callables ==
    {[kind |-> "ret", add |-> 10], [kind |-> "ret", add |-> 20],
     [kind |-> "exc", add |-> 0], [kind |-> "base", add |-> 0]}
FallbackRetvals == {default_fallback_retval, 7}

call(f, a) == IF f.kind = "ret" THEN Ret(a + f.add) ELSE Raise(f.kind)

\* a guard that lets the failure of func through
try_reraise(r, fb) == r

\* lines 189-200: try: retval = func(...) / except Exception: retval =
\* fallback(...) / finally: return retval.  r is how func ends, fb how the
\* fallback ends when it is called.  What `except Exception` does not catch,
\* and what the fallback raises, leaves retval unbound for the finally clause.
try_except_finally(r, fb) ==
    IF r.kind = "ret" THEN r
    ELSE IF r.kind = "exc" /\ fb.kind = "ret" THEN fb
    ELSE Raise("unbound")

\* a fallback that ignores fallback_func
fallback_retval_only(retval, ffunc, a) == Ret(retval)

\* lines 177-185: fallback_func, itself guarded with the default fallback
\* value, overrides fallback_retval
fallback(retval, ffunc, a) ==
    IF ffunc.kind # "none"
    THEN try_except_finally(call(ffunc, a), Ret(default_fallback_retval))
    ELSE Ret(retval)

\* guard(fallback_retval, fallback_func)(func)(a)
guarded_func(f, retval, ffunc, a) ==
    try_except_finally(call(f, a), fallback(retval, ffunc, a))

NoGuard ==
    [on |-> FALSE, fallback_retval |-> default_fallback_retval,
     fallback_func |-> NoCallable, func |-> NoCallable, args |-> 0,
     result |-> Raise("none")]

\* guard(fallback_retval=retval, fallback_func=ffunc), not yet called
Guard(retval, ffunc) ==
    [NoGuard EXCEPT !.on = TRUE, !.fallback_retval = retval,
                    !.fallback_func = ffunc]

(* --------------------------- args_as_string ---------------------------- *)
MaxArgs == 2

\* argument values: what they are (type, id) and the text their __repr__()
\* gives.  The two arrays are different objects whose abbreviated repr is
\* the same text.
ArgValues ==
    {[type |-> "int", id |-> 0, text |-> "1"],
     [type |-> "str", id |-> 0, text |-> "1"],
     [type |-> "array", id |-> 1, text |-> "array([0, ..., 0])"],
     [type |-> "array", id |-> 2, text |-> "array([0, ..., 0])"]}

\* the values given as named arguments, which json.dumps must serialize
JsonValues == {x \in ArgValues : x.type = "int"}

\* keyword names, in lexicographic order
Names == <<"a", "b">>

ArgLists == UNION {[1..n -> ArgValues] : n \in 0..MaxArgs}

\* **kwargs in the order the call gives them; a name occurs once
KwargLists ==
    {kw \in UNION {[1..n -> [name : {Names[i] : i \in 1..Len(Names)},
                             value : JsonValues]] : n \in 0..Len(Names)} :
        \A i, j \in 1..Len(kw) : kw[i].name = kw[j].name => i = j}

\* _arg.__repr__()
repr(x) == IF x.type = "str" THEN "'" \o x.text \o "'" ELSE x.text

RECURSIVE join(_, _)
\* sep.join(strs)
join(sep, strs) ==
    IF strs = <<>> THEN ""
    ELSE IF Len(strs) = 1 THEN strs[1]
    ELSE strs[1] \o sep \o join(sep, Tail(strs))

\* a dump that keeps the order of the call
keys_unsorted(kw, i) == kw

RECURSIVE sort_keys(_, _)
\* sort_keys=True: the items from the i-th name on, by name
sort_keys(kw, i) ==
    IF i > Len(Names) THEN <<>>
    ELSE SelectSeq(kw, LAMBDA p : p.name = Names[i]) \o sort_keys(kw, i + 1)

\* json.dumps of one value
json_value(x) == IF x.type = "str" THEN "\"" \o x.text \o "\"" ELSE x.text

\* json.dumps(kwargs, ensure_ascii=False, sort_keys=True)
json_dumps(kw) ==
    LET items == sort_keys(kw, 1)
    IN "{" \o join(", ", [i \in 1..Len(items) |->
                            "\"" \o items[i].name \o "\": "
                                 \o json_value(items[i].value)])
           \o "}"

\* lines 214-216
args_as_string(args, kw) ==
    "args: " \o join(", ", [i \in 1..Len(args) |-> repr(args[i])])
             \o ", kwargs: " \o json_dumps(kw)

NoRender ==
    [called |-> FALSE, args1 |-> <<>>, kwargs1 |-> <<>>, key1 |-> "",
     args2 |-> <<>>, kwargs2 |-> <<>>, key2 |-> ""]

(* ------------------------------ threads -------------------------------- *)
Threads == {"t1", "t2"}

\* a thread's activation of memoized_func: where it is (pc), its lookup_key,
\* the value of state_dict['updates'] it has read (tmp), its retval, and
\* whether it ran func
IdleThread ==
    [pc |-> "idle", key |-> 0, tmp |-> 0, retval |-> 0, ran |-> FALSE]

NoThreads == [t \in Threads |-> IdleThread]

(* ------------------------------- Init ---------------------------------- *)
\* no cache yet, and nothing at persist_path
InitCache ==
    /\ proc = "none"
    /\ cache_limit = 0
    /\ return_copy = FALSE
    /\ persist_path = FALSE
    /\ persist_batch_size = 0
    /\ memory = <<>>
    /\ updates = 0
    /\ file = NoFile
    /\ stack = <<>>
    /\ ev = Event("start", "na", {}, {}, {})
    /\ hitKey = {}
    /\ insSince = 0
    /\ plain = FALSE
    /\ stored = 0
    /\ retry = FALSE
    /\ calls = 0
    /\ seen = 0

Init ==
    /\ InitCache
    /\ threads = NoThreads
    /\ guarded = NoGuard
    /\ rendered = NoRender

(* ------------------------- memoize / wrapper --------------------------- *)
\* memoize(cache_limit, return_copy, persist_path, persist_batch_size)(func),
\* lines 233-251
Construct(limit, copy, path, batch) ==
    /\ proc = "none"
    /\ stack' = <<>>
    /\ hitKey' = {}
    /\ insSince' = 0
    /\ plain' = FALSE
    /\ stored' = 0
    /\ retry' = FALSE
    /\ UNCHANGED <<file, calls, seen>>
    /\ IF path /\ batch < 1
       THEN \* assert persist_batch_size >= 1
            /\ ev' = Event("construct", "raise", {}, {}, {})
            /\ UNCHANGED <<proc, config, memory, updates>>
       ELSE IF path /\ file.exists /\ ~Loadable(file.data)
       THEN \* pickle.load raises
            /\ ev' = Event("load", "raise", {}, {}, {})
            /\ UNCHANGED <<proc, config, memory, updates>>
       ELSE /\ proc' = "ready"
            /\ cache_limit' = limit
            /\ return_copy' = copy
            /\ persist_path' = path
            /\ persist_batch_size' = batch
            /\ memory' = IF path /\ file.exists THEN pickle_load(file.data) ELSE <<>>
            /\ updates' = 0
            /\ ev' = Event(IF path /\ file.exists THEN "load" ELSE "construct",
                           "ret", {}, {}, {})
    /\ UNCHANGED side

(* --------------------------- memoized_func ----------------------------- *)
\* A call is made by the program between calls, or by func while it runs
\* (recursion, as in mini_test.factorial), then with arguments other than
\* those of the calls under way.  Keys are interchangeable: the n-th distinct
\* key to be called is named n.
CanCall(k) ==
    /\ proc = "ready"
    /\ calls < MaxCalls
    /\ k <= seen + 1
    /\ stack # <<>> => Top.pc = "compute"
    /\ k \notin InProgress

\* lines 256-259, then 270-271 and 275
CallHit(k) ==
    /\ CanCall(k)
    /\ contains(memory, k)
    /\ calls' = calls + 1
    /\ seen' = IF k > seen THEN k ELSE seen
    /\ memory' = move_to_end(memory, k)
    /\ hitKey' = {k}
    /\ insSince' = 0
    /\ plain' = (stack = <<>>)
    /\ IF flush_due(persist_path, updates, persist_batch_size)
       THEN /\ updates' = 0
            /\ stored' = 0
            /\ stack' = Append(stack, Frame(k, "open", getitem(memory, k)))
            /\ ev' = HitEvent("flush", k, getitem(memory, k), IndexOf(memory, k))
       ELSE /\ UNCHANGED <<updates, stored, stack>>
            /\ ev' = HitEvent("ret", k, getitem(memory, k), IndexOf(memory, k))
    /\ UNCHANGED <<proc, config, file, retry>>
    /\ UNCHANGED side

\* lines 256, 260-262: func(*args, **kwargs) is entered
CallMiss(k) ==
    /\ CanCall(k)
    /\ ~contains(memory, k)
    /\ calls' = calls + 1
    /\ seen' = IF k > seen THEN k ELSE seen
    /\ stack' = Append(stack, Frame(k, "compute", 0))
    /\ ev' = Event("miss", "na", {k}, {}, {})
    /\ UNCHANGED <<proc, config, memory, updates, file, hitKey, insSince, plain, stored,
                   retry>>
    /\ UNCHANGED side

\* lines 263-267, then 270-271 and 275: the value v that func returned is
\* stored, counted, and returned or flushed
store_result(v) ==
    /\ stack # <<>>
    /\ Top.pc = "compute"
    /\ LET k == Top.key
           put == setitem(memory, k, v)
           n == updates + 1
           gone == KeysOf(put) \ KeysOf(evict(put, cache_limit))
       IN /\ memory' = evict(put, cache_limit)
          /\ insSince' = IF hitKey = {} THEN 0 ELSE insSince + 1
          /\ plain' = (plain /\ Len(stack) = 1)
          /\ retry' = FALSE
          /\ IF flush_due(persist_path, n, persist_batch_size)
             THEN /\ updates' = 0
                  /\ stored' = 0
                  /\ stack' = [stack EXCEPT ![Len(stack)] = Frame(k, "open", v)]
                  /\ ev' = Event("store", "flush", {k}, {v}, gone)
             ELSE /\ updates' = n
                  /\ stored' = stored + 1
                  /\ stack' = Pop
                  /\ ev' = Event("store", "ret", {k}, {v}, gone)
    /\ UNCHANGED <<proc, config, file, hitKey, calls, seen>>

\* line 262: func raises; nothing in memoized_func catches it
propagate ==
    /\ stack # <<>>
    /\ Top.pc = "compute"
    /\ stack' = Pop
    /\ hitKey' = {}
    /\ insSince' = 0
    /\ plain' = FALSE
    /\ ev' = Event("compute", "raise", {Top.key}, {}, {})
    /\ UNCHANGED <<proc, config, memory, updates, file, stored, retry, calls, seen>>

\* lines 262-267, then 270-271 and 275: func returns v
FuncReturn(v) ==
    /\ store_result(v)
    /\ UNCHANGED side

\* an update counted before func is known to succeed
FuncRaise_counted ==
    /\ stack # <<>>
    /\ Top.pc = "compute"
    /\ stack' = Pop
    /\ hitKey' = {}
    /\ insSince' = 0
    /\ plain' = FALSE
    /\ updates' = updates + 1
    /\ ev' = Event("compute", "raise", {Top.key}, {}, {})
    /\ UNCHANGED <<proc, config, memory, file, stored, retry, calls, seen>>
    /\ UNCHANGED side

\* line 262: func raises
FuncRaise ==
    /\ propagate
    /\ UNCHANGED side

\* line 272: open(persist_path, "wb") truncates the file
OpenOk ==
    /\ stack # <<>>
    /\ Top.pc = "open"
    /\ file' = FileOf(<<>>)
    /\ stack' = [stack EXCEPT ![Len(stack)].pc = "dump"]
    /\ ev' = Event("open", "na", {Top.key}, {}, {})
    /\ UNCHANGED <<proc, config, memory, updates, hitKey, insSince, plain, stored, retry,
                   calls, seen>>
    /\ UNCHANGED side

\* line 272: open raises OSError; the file is untouched
OpenFail ==
    /\ stack # <<>>
    /\ Top.pc = "open"
    /\ stack' = Pop
    /\ retry' = TRUE
    /\ ev' = Event("writefail", "raise", {Top.key}, {}, {})
    /\ UNCHANGED <<proc, config, memory, updates, file, hitKey, insSince, plain, stored,
                   calls, seen>>
    /\ UNCHANGED side

\* lines 273 and 275: the dump completes and the call returns retval
DumpOk ==
    /\ stack # <<>>
    /\ Top.pc = "dump"
    /\ file' = FileOf(pickle_dump(memory))
    /\ stack' = Pop
    /\ ev' = Event("dump", "ret", {Top.key}, {Top.ret}, {})
    /\ UNCHANGED <<proc, config, memory, updates, hitKey, insSince, plain, stored, retry,
                   calls, seen>>
    /\ UNCHANGED side

\* line 273: the dump raises part-way (I/O error, unpicklable value)
DumpFail ==
    /\ stack # <<>>
    /\ Top.pc = "dump"
    /\ \E d \in Prefixes(pickle_dump(memory)) : file' = FileOf(d)
    /\ stack' = Pop
    /\ retry' = TRUE
    /\ ev' = Event("writefail", "raise", {Top.key}, {}, {})
    /\ UNCHANGED <<proc, config, memory, updates, hitKey, insSince, plain, stored,
                   calls, seen>>
    /\ UNCHANGED side

(* ------------------------------ process -------------------------------- *)
\* the process ends between calls; the file stays
Exit ==
    /\ proc = "ready"
    /\ stack = <<>>
    /\ proc' = "none"
    /\ memory' = <<>>
    /\ updates' = 0
    /\ hitKey' = {}
    /\ insSince' = 0
    /\ plain' = FALSE
    /\ stored' = 0
    /\ retry' = FALSE
    /\ ev' = Event("exit", "na", {}, {}, {})
    /\ UNCHANGED <<config, file, stack, calls, seen>>
    /\ UNCHANGED side

\* the process is interrupted inside a call; a dump under way stops part-way
Kill ==
    /\ proc = "ready"
    /\ stack # <<>>
    /\ proc' = "none"
    /\ memory' = <<>>
    /\ updates' = 0
    /\ stack' = <<>>
    /\ hitKey' = {}
    /\ insSince' = 0
    /\ plain' = FALSE
    /\ stored' = 0
    /\ retry' = FALSE
    /\ IF Top.pc = "dump"
       THEN \E d \in Prefixes(pickle_dump(memory)) : file' = FileOf(d)
       ELSE UNCHANGED file
    /\ ev' = Event("kill", "na", {}, {}, {})
    /\ UNCHANGED <<config, calls, seen>>
    /\ UNCHANGED side

Next ==
    \/ \E limit \in Limits, path \in BOOLEAN :
          \E batch \in (IF path THEN BatchSizes ELSE {MaxLimit}) :
             Construct(limit, FALSE, path, batch)
    \/ \E k \in Keys : CallHit(k)
    \/ \E k \in Keys : CallMiss(k)
    \/ \E v \in Values : FuncReturn(v)
    \/ FuncRaise
    \/ OpenOk
    \/ OpenFail
    \/ DumpOk
    \/ DumpFail
    \/ Exit
    \/ Kill

Spec == Init /\ [][Next]_vars

\* the same program when every file write succeeds
NextDurable ==
    \/ \E limit \in Limits, path \in BOOLEAN :
          \E batch \in (IF path THEN BatchSizes ELSE {MaxLimit}) :
             Construct(limit, FALSE, path, batch)
    \/ \E k \in Keys : CallHit(k)
    \/ \E k \in Keys : CallMiss(k)
    \/ \E v \in Values : FuncReturn(v)
    \/ FuncRaise
    \/ OpenOk
    \/ DumpOk
    \/ Exit
    \/ Kill

SpecDurable == Init /\ [][NextDurable]_vars

(* --------------------------- return_copy ------------------------------- *)
\* a return that hands out the stored object whatever return_copy is
returned_stored(copy) == "stored"

\* line 275: return deepcopy(retval) if return_copy else retval.  Which
\* object the caller holds: a fresh copy, or the one stored in memory.
returned(copy) == IF copy THEN "copy" ELSE "stored"

\* the caller of the call that has just returned changes the object it was
\* given, in place, so that it now reads v
Mutate(v) ==
    /\ CallCompleted
    /\ ev.val # {v}
    /\ memory' = IF returned(return_copy) = "stored" /\ ev.key \subseteq KeysOf(memory)
                 THEN [i \in 1..Len(memory) |->
                          IF memory[i].key \in ev.key
                          THEN [memory[i] EXCEPT !.val = v]
                          ELSE memory[i]]
                 ELSE memory
    /\ ev' = Event("mutate", "na", ev.key, {v}, {})
    /\ UNCHANGED <<proc, config, updates, file, stack, hitKey, insSince, plain,
                   stored, retry, calls, seen>>
    /\ UNCHANGED side

NextCopy ==
    \/ \E limit \in Limits, copy \in BOOLEAN, path \in BOOLEAN :
          \E batch \in (IF path THEN BatchSizes ELSE {MaxLimit}) :
             Construct(limit, copy, path, batch)
    \/ \E k \in Keys : CallHit(k)
    \/ \E k \in Keys : CallMiss(k)
    \/ \E v \in Values : FuncReturn(v)
    \/ FuncRaise
    \/ OpenOk
    \/ DumpOk
    \/ \E v \in Values : Mutate(v)

\* the cache with return_copy on or off, and callers that mutate what they get
SpecCopy == Init /\ [][NextCopy]_vars

(* ---------------------------- guarded calls ---------------------------- *)
\* the variables of the cache and of its single-threaded callers
cachevars == <<proc, config, memory, updates, file, stack, ev, hitKey, insSince,
               plain, stored, retry, calls, seen>>

\* a function decorated with guard(fallback_retval, fallback_func)
InitGuard ==
    /\ InitCache
    /\ threads = NoThreads
    /\ rendered = NoRender
    /\ \E retval \in FallbackRetvals, ffunc \in Callables \cup {NoCallable} :
          guarded = Guard(retval, ffunc)

\* guarded_func(a), lines 189-200, around a func that behaves as f
GuardedCall(f, a) ==
    /\ guarded.on
    /\ guarded' = [guarded EXCEPT
                      !.func = f,
                      !.args = a,
                      !.result = guarded_func(f, guarded.fallback_retval,
                                              guarded.fallback_func, a)]
    /\ UNCHANGED <<cachevars, threads, rendered>>

NextGuard == \E f \in Callables, a \in Keys : GuardedCall(f, a)

SpecGuard == InitGuard /\ [][NextGuard]_vars

(* ----------------------- memoize over guard ---------------------------- *)
\* line 262 when func is a guarded function (mini_test.factorial): the
\* guarded function runs on the arguments of the call, and memoized_func
\* goes on with what it returns, or ends with what it raises
GuardedCompute(f) ==
    /\ guarded.on
    /\ stack # <<>>
    /\ Top.pc = "compute"
    /\ LET r == guarded_func(f, guarded.fallback_retval, guarded.fallback_func,
                             Top.key)
       IN /\ guarded' = [guarded EXCEPT !.func = f, !.args = Top.key,
                                        !.result = r]
          /\ IF r.kind = "ret" THEN store_result(r.val) ELSE propagate
    /\ UNCHANGED <<threads, rendered>>

\* the guard of the memoized function keeps a fallback_retval other than the
\* default, so that the cache tells the two apart
InitGuarded ==
    /\ InitCache
    /\ threads = NoThreads
    /\ rendered = NoRender
    /\ \E retval \in FallbackRetvals \ {default_fallback_retval},
          ffunc \in Callables \cup {NoCallable} :
          guarded = Guard(retval, ffunc)

\* how the function inside the guard ends: it returns, fails, or is interrupted
GuardedFuncs == {f \in Callables : f.kind = "ret" => f.add = 10}

NextGuarded ==
    \/ \E limit \in Limits, path \in BOOLEAN :
          \E batch \in (IF path THEN BatchSizes ELSE {MaxLimit}) :
             Construct(limit, FALSE, path, batch)
    \/ \E k \in Keys : CallHit(k)
    \/ \E k \in Keys : CallMiss(k)
    \/ \E f \in GuardedFuncs : GuardedCompute(f)
    \/ OpenOk
    \/ DumpOk

\* memoize(...)(guard(...)(func))
SpecGuarded == InitGuarded /\ [][NextGuarded]_vars

(* --------------------------- key rendering ----------------------------- *)
\* two calls f(*a1, **k1) and f(*a2, **k2): the lookup_key of line 255 for each
Render(a1, k1, a2, k2) ==
    /\ ~rendered.called
    /\ rendered' = [called |-> TRUE,
                    args1 |-> a1, kwargs1 |-> k1, key1 |-> args_as_string(a1, k1),
                    args2 |-> a2, kwargs2 |-> k2, key2 |-> args_as_string(a2, k2)]
    /\ UNCHANGED <<cachevars, threads, guarded>>

\* a pair of calls is drawn once
NextKey ==
    /\ ~rendered.called
    /\ \E a1 \in ArgLists, k1 \in KwargLists, a2 \in ArgLists, k2 \in KwargLists :
          Render(a1, k1, a2, k2)

SpecKey == Init /\ [][NextKey]_vars

(* ------------------------ concurrent callers --------------------------- *)
\* Threads of one process call the same memoized function, one call each.
\* memoized_func takes no lock, so the interpreter may switch threads between
\* any two of its statements, and inside the read-modify-write of line 264.
threadframe == <<proc, config, stack, ev, hitKey, insSince, plain, stored, retry,
                 calls, seen, guarded, rendered>>

\* lines 255-256: the thread renders its key and tests `lookup_key in memory`
TCall(t, k) ==
    /\ proc = "ready"
    /\ threads[t].pc = "idle"
    /\ threads' = [threads EXCEPT ![t].key = k,
                      ![t].pc = IF contains(memory, k) THEN "hit" ELSE "compute"]
    /\ UNCHANGED <<memory, updates, file, threadframe>>

\* lines 258-259: retval = memory[lookup_key]; memory.move_to_end(...).  The
\* key may have been evicted since the test: memory[lookup_key] raises KeyError
THit(t) ==
    /\ threads[t].pc = "hit"
    /\ IF contains(memory, threads[t].key)
       THEN /\ memory' = move_to_end(memory, threads[t].key)
            /\ threads' = [threads EXCEPT
                              ![t].retval = getitem(memory, threads[t].key),
                              ![t].pc = "persist"]
       ELSE /\ threads' = [threads EXCEPT ![t].pc = "raised"]
            /\ UNCHANGED memory
    /\ UNCHANGED <<updates, file, threadframe>>

\* line 262: retval = func(*args, **kwargs)
TCompute(t, v) ==
    /\ threads[t].pc = "compute"
    /\ threads' = [threads EXCEPT ![t].retval = v, ![t].ran = TRUE,
                                  ![t].pc = "store"]
    /\ UNCHANGED <<memory, updates, file, threadframe>>

\* line 263: memory[lookup_key] = retval
TStore(t) ==
    /\ threads[t].pc = "store"
    /\ memory' = setitem(memory, threads[t].key, threads[t].retval)
    /\ threads' = [threads EXCEPT ![t].pc = "read"]
    /\ UNCHANGED <<updates, file, threadframe>>

\* line 264, state_dict['updates'] += 1: the value is read ...
TRead(t) ==
    /\ threads[t].pc = "read"
    /\ threads' = [threads EXCEPT ![t].tmp = updates, ![t].pc = "write"]
    /\ UNCHANGED <<memory, updates, file, threadframe>>

\* ... and the value read, plus one, is written back
TWrite(t) ==
    /\ threads[t].pc = "write"
    /\ updates' = threads[t].tmp + 1
    /\ threads' = [threads EXCEPT ![t].pc = "evict"]
    /\ UNCHANGED <<memory, file, threadframe>>

\* lines 266-267
TEvict(t) ==
    /\ threads[t].pc = "evict"
    /\ memory' = evict(memory, cache_limit)
    /\ threads' = [threads EXCEPT ![t].pc = "persist"]
    /\ UNCHANGED <<updates, file, threadframe>>

\* lines 270-275: the flush, when it is due, and the return
TPersist(t) ==
    /\ threads[t].pc = "persist"
    /\ IF flush_due(persist_path, updates, persist_batch_size)
       THEN /\ updates' = 0
            /\ file' = FileOf(pickle_dump(memory))
       ELSE UNCHANGED <<updates, file>>
    /\ threads' = [threads EXCEPT ![t].pc = "done"]
    /\ UNCHANGED <<memory, threadframe>>

NextThreads ==
    \/ \E limit \in Limits, path \in BOOLEAN :
          \E batch \in (IF path THEN BatchSizes ELSE {MaxLimit}) :
             Construct(limit, FALSE, path, batch)
    \/ \E t \in Threads, k \in Keys : TCall(t, k)
    \/ \E t \in Threads : THit(t)
    \/ \E t \in Threads, v \in Values : TCompute(t, v)
    \/ \E t \in Threads : TStore(t)
    \/ \E t \in Threads : TRead(t)
    \/ \E t \in Threads : TWrite(t)
    \/ \E t \in Threads : TEvict(t)
    \/ \E t \in Threads : TPersist(t)

SpecThreads == Init /\ [][NextThreads]_vars

(* ======================= claims about the cache ======================== *)
\* the step taken is a hit / a store of a freshly computed value
HitStep == ev'.op = "hit" /\ calls' = calls + 1
StoreStep == ev'.op = "store" /\ stack' # stack

\* C1: whenever a call has completed, the number of stored entries is at most
\* cache_limit, for every cache_limit and every initial content (empty or
\* loaded from the snapshot at persist_path).  Stated for the limits the
\* specification admits (cache_limit >= 1), so that a violation does not rest
\* on a limit of 0.
C1_SizeWithinLimit ==
    (CallCompleted /\ cache_limit >= 1) => Len(memory) <= cache_limit

\* C2: a miss stores the new key at the most-recently-used end; an insertion
\* that pushes the size past cache_limit removes exactly one entry, the least
\* recently used one, never the key just inserted.
C2_MissEvictsLeastRecent ==
    [][StoreStep =>
        /\ memory' # <<>>
        /\ {memory'[Len(memory')].key} = ev'.key
        /\ ev'.evicted \cap ev'.key = {}
        /\ IF Len(memory) + 1 > cache_limit
           THEN memory # <<>> /\ ev'.evicted = {memory[1].key}
           ELSE ev'.evicted = {}
        /\ Len(memory') = Len(memory) + 1 - Cardinality(ev'.evicted)]_vars

\* C2 on the caches the specification admits (cache_limit >= 1): the same
\* statement, which the code satisfies there.
C2_PositiveLimit ==
    [][(StoreStep /\ cache_limit >= 1) =>
        /\ memory' # <<>>
        /\ {memory'[Len(memory')].key} = ev'.key
        /\ ev'.evicted \cap ev'.key = {}
        /\ IF Len(memory) + 1 > cache_limit
           THEN memory # <<>> /\ ev'.evicted = {memory[1].key}
           ELSE ev'.evicted = {}
        /\ Len(memory') = Len(memory) + 1 - Cardinality(ev'.evicted)]_vars

C4_HitThenLimitInsertions ==
    (proc = "ready" /\ hitKey # {} /\ plain /\ insSince = cache_limit)
        => hitKey \subseteq KeysOf(memory)

\* C4 amended: after a hit on K followed by at most cache_limit - 1 insertions
\* of new keys, K is still present, and exactly the keys inserted since the
\* hit are more recent than K.
C4_HitProtectsKey ==
    (proc = "ready" /\ hitKey # {} /\ insSince <= cache_limit - 1)
        => /\ hitKey \subseteq KeysOf(memory)
           /\ \A k \in hitKey : IndexOf(memory, k) = Len(memory) - insSince

\* a hit on K, then cache_limit - 1 >= 1 insertions, the last of which
\* evicted another key while K stayed
C4_Witness ==
    /\ proc = "ready"
    /\ hitKey # {}
    /\ insSince >= 1
    /\ insSince = cache_limit - 1
    /\ ev.op = "store"
    /\ ev.evicted # {}
    /\ hitKey \subseteq KeysOf(memory)

\* C5: with persist_path set and persist_batch_size N, a miss that stores an
\* entry raises the counter by one and a hit leaves it alone; no flush begins
\* while fewer than N entries were stored since the last one; the call that
\* stores the N-th entry resets the counter to 0 and writes the snapshot; a
\* hit never changes the counter or the file and never begins a flush.
C5_BatchedFlush ==
    [][persist_path =>
        /\ StoreStep =>
              /\ stored + 1 <= persist_batch_size
              /\ IF stored + 1 < persist_batch_size
                 THEN /\ updates' = updates + 1
                      /\ ev'.out = "ret"
                      /\ file' = file
                 ELSE /\ updates' = 0
                      /\ ev'.out = "flush"
                      /\ stack' # <<>>
                      /\ stack'[Len(stack')].pc = "open"
        /\ HitStep =>
              /\ updates' = updates
              /\ file' = file
              /\ ev'.out = "ret"
        /\ (ev'.op = "dump" /\ stack' # stack) =>
              /\ updates' = 0
              /\ file'.exists
              /\ Loadable(file'.data)
              /\ pickle_load(file'.data) = memory'
        /\ (file' # file) => (stack # <<>> /\ Top.pc \in {"open", "dump"})]_vars

\* the call that stored the N-th entry (N >= 2) has written the snapshot
C5_Witness ==
    /\ persist_path
    /\ persist_batch_size >= 2
    /\ ev.op = "dump"
    /\ ev.out = "ret"
    /\ updates = 0
    /\ file.exists
    /\ Len(memory) >= 2

(* ===================== claims about persistence ======================== *)
\* the write of a flush has just failed (open or dump raised)
WriteFailStep == ev'.op = "writefail" /\ stack' # stack

\* C6: when the file write of a flush fails, the in-memory cache is unchanged,
\* the pending-update counter stays non-zero, and the next call that stores a
\* new entry attempts the flush again.
C6_FailedFlushIsRetried ==
    [][/\ WriteFailStep => (memory' = memory /\ updates' # 0)
       /\ (retry /\ StoreStep) => ev'.out = "flush"]_vars

\* C7: a failing file write is not fatal to the call that triggered it: the
\* call still returns its result.
C7_WriteFailureNotFatal ==
    ev.op = "writefail" => (ev.out = "ret" /\ ev.val # {})

\* C8: a flush is atomic with respect to the snapshot file: when the process
\* is interrupted at any point of a flush, the file at persist_path holds a
\* complete snapshot (the previous one or the new one), never an empty or
\* half-written one.
C8_FlushAtomic ==
    (ev.op = "kill" /\ file.exists) => Loadable(file.data)

\* C9: a cache with a non-positive cache_limit is rejected at construction,
\* so no live cache has one.
C9_NonPositiveLimitRejected == proc = "ready" => cache_limit >= 1

\* C10: the snapshot written by a successful flush, loaded again, is the
\* in-memory cache as it was at the end of the flushing call (same keys, same
\* values, same recency order, after the insertion and the eviction); and a
\* cache constructed from the snapshot is one that dumps to that snapshot.
C10_RoundTrip ==
    /\ (ev.op = "dump" /\ ev.out = "ret") =>
          /\ file.exists
          /\ Loadable(file.data)
          /\ pickle_load(file.data) = memory
    /\ (ev.op = "load" /\ ev.out = "ret") =>
          /\ memory = pickle_load(file.data)
          /\ pickle_dump(memory) = file.data

\* a cache loaded from a snapshot of two entries whose recency order is not
\* their key order
C10_Witness ==
    /\ ev.op = "load"
    /\ ev.out = "ret"
    /\ Len(memory) >= 2
    /\ memory[1].key > memory[2].key
    /\ memory[1].val # memory[2].val

(* ==================== claims about the computation ===================== *)
\* a call of memoized_func is entered in this step
CallStep == calls' = calls + 1

\* func has raised in this step
RaiseStep == ev'.op = "compute" /\ ev'.out = "raise" /\ stack' # stack

\* the activations in which func is running
Computing(stk) == {i \in 1..Len(stk) : stk[i].pc = "compute"}

\* C11: every call on a present key is a hit that returns the stored value
\* without running the wrapped function, so the function runs at most once
\* for a key while the key's entry stays present: no activation of func is
\* for a key that is present.
C11_PresentKeyNotRecomputed ==
    [][/\ CallStep =>
            IF ev'.key \subseteq KeysOf(memory)
            THEN /\ ev'.op = "hit"
                 /\ \A k \in ev'.key : ev'.val = {getitem(memory, k)}
                 /\ Computing(stack') = Computing(stack)
            ELSE ev'.op = "miss"
       /\ \A i \in Computing(stack') : stack'[i].key \notin KeysOf(memory')]_vars

\* a hit on an entry whose key was computed once, in a cache with another entry
C11_Witness ==
    /\ ev.op = "hit"
    /\ ev.out = "ret"
    /\ Len(memory) >= 2
    /\ \A k \in ev.key : ev.val = {getitem(memory, k)}

\* C12: when the wrapped computation fails on a miss, the failure reaches the
\* caller and the call changes neither the cache content, the recency order,
\* the pending-update counter nor the snapshot file.
C12_FailedComputationLeavesCache ==
    [][/\ RaiseStep =>
            /\ ev'.out = "raise"
            /\ stack' = Pop
            /\ memory' = memory
            /\ updates' = updates
            /\ file' = file
       /\ (CallStep /\ ev'.op = "miss") =>
            /\ memory' = memory
            /\ updates' = updates
            /\ file' = file]_vars

\* func raised in a persisted cache that holds entries and pending updates
C12_Witness ==
    /\ ev.op = "compute"
    /\ ev.out = "raise"
    /\ persist_path
    /\ file.exists
    /\ memory # <<>>
    /\ updates >= 1

(* ==================== claims about initialization ====================== *)
\* a cache has just been constructed
Constructed == ev.op \in {"construct", "load"} /\ ev.out = "ret"

\* a stream that stops before the STOP opcode: empty or half-written
Truncated(data) == data = <<>> \/ data[Len(data)].op # "STOP"

\* C14: with persist_path unset or no file there, the cache starts empty with
\* the pending-update counter at 0; a malformed file makes the construction
\* fail and no cache is produced: a cache constructed on a path never stands
\* on a truncated file.
C14_Initialization ==
    /\ Constructed => (proc = "ready" /\ updates = 0)
    /\ (Constructed /\ (~persist_path \/ ~file.exists)) => memory = <<>>
    /\ (Constructed /\ persist_path /\ file.exists) =>
          (~Truncated(file.data) /\ ev.op = "load")
    /\ (ev.op = "load" /\ ev.out = "raise") => proc = "none"

\* a construction on a half-written snapshot has failed
C14_Witness ==
    /\ ev.op = "load"
    /\ ev.out = "raise"
    /\ proc = "none"
    /\ file.exists
    /\ Len(file.data) >= 2

(* ================ implicit claims about the counter ==================== *)
\* no activation is writing the snapshot
NoFlushUnderWay == \A i \in 1..Len(stack) : stack[i].pc = "compute"

\* the keys of the snapshot last written to, or loaded from, persist_path
SnapshotKeys ==
    IF file.exists /\ Loadable(file.data)
    THEN KeysOf(pickle_load(file.data))
    ELSE {}

\* C18: with persist_path set, whenever a call has completed (nested calls
\* included) the pending-update counter is in 0 .. persist_batch_size - 1,
\* and only a call that stored a new entry goes on to flush.
C18_CounterBelowBatch ==
    /\ (proc = "ready" /\ persist_path) =>
          (updates >= 0 /\ updates <= persist_batch_size - 1)
    /\ (persist_path /\ ev.out = "flush") => ev.op = "store"

\* a nested call has completed with the counter one short of the batch size
C18_Witness ==
    /\ persist_path
    /\ ev.op = "store"
    /\ ev.out = "ret"
    /\ stack # <<>>
    /\ updates >= 1
    /\ updates = persist_batch_size - 1

\* C19: with persist_path set and every file write succeeding, whenever a
\* call has completed the keys in memory that the snapshot lacks are at most
\* the pending-update counter, hence at most persist_batch_size - 1.
C19_DurabilityBound ==
    (proc = "ready" /\ persist_path /\ NoFlushUnderWay) =>
        /\ Cardinality(KeysOf(memory) \ SnapshotKeys) <= updates
        /\ updates <= persist_batch_size - 1

\* a completed call leaves one stored key that an existing snapshot lacks
C19_Witness ==
    /\ proc = "ready"
    /\ persist_path
    /\ stack = <<>>
    /\ ev.op = "store"
    /\ file.exists
    /\ updates = 1
    /\ Cardinality(KeysOf(memory) \ SnapshotKeys) = 1

(* ======================== claims about guard =========================== *)
\* the guarded function has been called
GuardCalled == guarded.on /\ guarded.func.kind # "none"

\* C16: a guarded function does not propagate a failure (an Exception) of the
\* wrapped callable: when the callable fails, the call returns the fallback's
\* result, which is fallback_func applied to the same arguments when
\* fallback_func is supplied (whatever fallback_retval is; the default value
\* when fallback_func fails in turn) and fallback_retval otherwise; when the
\* callable succeeds, its own return value is returned unchanged.
C16_GuardSubstitutesFallback ==
    GuardCalled =>
        LET f == guarded.func
            ffunc == guarded.fallback_func
            a == guarded.args
        IN /\ f.kind = "ret" => guarded.result = Ret(a + f.add)
           /\ (f.kind = "exc" /\ ffunc.kind = "none") =>
                 guarded.result = Ret(guarded.fallback_retval)
           /\ (f.kind = "exc" /\ ffunc.kind = "ret") =>
                 guarded.result = Ret(a + ffunc.add)
           /\ (f.kind = "exc" /\ ffunc.kind = "exc") =>
                 guarded.result = Ret(default_fallback_retval)

\* the callable failed and fallback_func, not fallback_retval, gave the result
C16_Witness ==
    /\ GuardCalled
    /\ guarded.func.kind = "exc"
    /\ guarded.fallback_func.kind = "ret"
    /\ guarded.result = Ret(guarded.args + guarded.fallback_func.add)
    /\ guarded.result.val # guarded.fallback_retval

\* what C16 leaves out: a BaseException that is no Exception (an interrupt, a
\* SystemExit), raised by the callable or by fallback_func after the callable
\* failed, is not caught, and `finally: return retval` then raises
\* UnboundLocalError in its place.
GuardInterrupted ==
    (GuardCalled /\ (\/ guarded.func.kind = "base"
                     \/ /\ guarded.func.kind = "exc"
                        /\ guarded.fallback_func.kind = "base"))
        => guarded.result = Raise("unbound")

\* the guarded function has ended in this step, inside a miss
ComputeStep ==
    /\ stack # <<>>
    /\ Top.pc = "compute"
    /\ stack' # stack
    /\ calls' = calls

\* what the fallback of the guard gives on argument a
FallbackValue(a) ==
    IF guarded.fallback_func.kind = "none" THEN guarded.fallback_retval
    ELSE IF guarded.fallback_func.kind = "ret" THEN a + guarded.fallback_func.add
    ELSE default_fallback_retval

\* C20: when memoize wraps a guarded function, a computation that fails (with
\* an Exception) is a successful miss for the cache: the guard's fallback
\* value is stored under the key at the most-recently-used end, the
\* pending-update counter is incremented (and reset when that makes a flush
\* due), and a later call on the key, while the entry is present, is a hit
\* that returns the stored value without running the guarded function.
C20_FailureCachedAsMiss ==
    [][/\ (/\ ComputeStep
           /\ guarded'.func.kind = "exc"
           /\ guarded.fallback_func.kind # "base") =>
              /\ ev'.op = "store"
              /\ ev'.key = {Top.key}
              /\ ev'.val = {FallbackValue(Top.key)}
              /\ updates' = IF flush_due(persist_path, updates + 1,
                                         persist_batch_size)
                            THEN 0 ELSE updates + 1
              /\ cache_limit >= 1 =>
                    /\ memory' # <<>>
                    /\ memory'[Len(memory')] =
                          [key |-> Top.key, val |-> FallbackValue(Top.key)]
       /\ CallStep =>
              IF ev'.key \subseteq KeysOf(memory)
              THEN /\ ev'.op = "hit"
                   /\ \A k \in ev'.key : ev'.val = {getitem(memory, k)}
                   /\ guarded' = guarded
                   /\ Computing(stack') = Computing(stack)
              ELSE ev'.op = "miss"]_vars

\* a hit on the key whose computation was the last to fail returns the
\* fallback value that the failure left in the cache
C20_Witness ==
    /\ ev.op = "hit"
    /\ ev.out = "ret"
    /\ guarded.func.kind = "exc"
    /\ guarded.result.kind = "ret"
    /\ ev.key = {guarded.args}
    /\ ev.val = {guarded.result.val}
    /\ guarded.result.val = FallbackValue(guarded.args)

(* ====================== claims about return_copy ======================= *)
\* the caller has changed, in this step, the value a call returned
MutateStep == ev'.op = "mutate"

\* C15: with return_copy enabled, what a call returns (on a hit and on a fresh
\* computation alike) is independent of the stored entry: an in-place
\* mutation of it by the caller changes nothing in the cache, a fresh
\* computation stores the computed value, and a hit returns the stored value
\* and leaves every value as it is; so a later hit on the key returns the
\* value originally computed.
C15_CopyIsIndependent ==
    [][return_copy =>
        /\ MutateStep => (memory' = memory /\ file' = file)
        /\ StoreStep =>
              \A k \in ev'.key \cap KeysOf(memory') :
                 ev'.val = {getitem(memory', k)}
        /\ HitStep =>
              /\ \A k \in ev'.key : ev'.val = {getitem(memory, k)}
              /\ \A j \in KeysOf(memory) : getitem(memory', j) = getitem(memory, j)]_vars

\* with return_copy, the caller has mutated the value a hit returned, and the
\* entry still holds the other value
C15_Witness ==
    /\ return_copy
    /\ ev.op = "mutate"
    /\ ev.key \subseteq KeysOf(memory)
    /\ ev.key # {}
    /\ \A k \in ev.key : ev.val # {getitem(memory, k)}
    /\ hitKey = ev.key

\* without return_copy the caller holds the stored object itself: its
\* mutation is what the entry now holds
NoCopySharesEntry ==
    [][(MutateStep /\ ~return_copy) =>
          \A k \in ev'.key \cap KeysOf(memory) : ev'.val = {getitem(memory', k)}]_vars

(* ====================== claims about the keys ========================== *)
\* the same named arguments, in whatever order
SameNamed(k1, k2) ==
    {k1[i] : i \in 1..Len(k1)} = {k2[i] : i \in 1..Len(k2)}

\* positional arguments that are all ints and strs
Plain(args) == \A i \in 1..Len(args) : args[i].type \in {"int", "str"}

\* C17 as stated: two calls with the same positional arguments in the same
\* order and the same named arguments in any order render the same key, and
\* calls whose positional arguments differ in order or value render
\* different keys.
C17_KeysTellCallsApart ==
    rendered.called =>
        /\ (rendered.args1 = rendered.args2
              /\ SameNamed(rendered.kwargs1, rendered.kwargs2))
              => rendered.key1 = rendered.key2
        /\ rendered.args1 # rendered.args2 => rendered.key1 # rendered.key2

\* C17 amended: two calls with the same positional arguments in the same
\* order and the same named arguments in any order render the same key, and
\* calls whose positional arguments are ints and strs and differ in order or
\* value render different keys.
C17_PlainKeysTellCallsApart ==
    rendered.called =>
        /\ (rendered.args1 = rendered.args2
              /\ SameNamed(rendered.kwargs1, rendered.kwargs2))
              => rendered.key1 = rendered.key2
        /\ (Plain(rendered.args1) /\ Plain(rendered.args2)
              /\ rendered.args1 # rendered.args2)
              => rendered.key1 # rendered.key2

\* two calls that give the same two named arguments in opposite orders, after
\* the same positional arguments, have one key
C17_Witness ==
    /\ rendered.called
    /\ rendered.args1 = rendered.args2
    /\ rendered.args1 # <<>>
    /\ Len(rendered.kwargs1) = Len(Names)
    /\ rendered.kwargs1 # rendered.kwargs2
    /\ SameNamed(rendered.kwargs1, rendered.kwargs2)
    /\ rendered.key1 = rendered.key2

(* ==================== claims about concurrency ========================= *)
\* every thread has made its call, and the call is over
AllDone == \A t \in Threads : threads[t].pc \in {"done", "raised"}

\* the threads whose call ran func and stored what it returned
Storers == {t \in Threads : threads[t].ran /\ threads[t].pc \in {"done", "raised"}}

\* C13: under concurrent callers of the same memoized function the
\* check-insert-evict-flush sequence appears atomic: when all calls are over,
\* func has run at most once for a key that several callers missed together,
\* and (without flushes, which reset it) the pending-update counter equals
\* the number of entries stored.  Stated for cache_limit >= 1.
C13_ConcurrentCallsAtomic ==
    (proc = "ready" /\ cache_limit >= 1 /\ AllDone) =>
        /\ \A t, u \in Storers : threads[t].key = threads[u].key => t = u
        /\ ~persist_path => updates = Cardinality(Storers)

====
